---- MODULE Spec2Model ----
(***************************************************************************)
(* A model of data-toolkit: the Hive-to-Excel exporter with its connection *)
(* manager, the workbook merger with its grouping and sheet naming, and    *)
(* the column-width adjuster.                                              *)
(*                                                                         *)
(* File names, sheet names and comments are sequences of one-character     *)
(* strings; a non-ASCII character is written as its code point ("U8F93"),  *)
(* and the extension ".xlsx" is one token.  The strings the width          *)
(* calculator measures are sequences of code points (integers).            *)
(***************************************************************************)
EXTENDS Integers, Sequences, FiniteSets, TLC

VARIABLES
    \* ---- exporter run (HiveToExcelExporter.export + get_hive_connection)
    pc,                 \* position of the run
    connection,         \* the generator's local: "unbound" or "conn"
    opens,              \* sessions opened
    closes,             \* connection.close() calls
    pending,            \* exception in flight at the generator ("none" if none)
    raised,             \* exception that reached the caller of the with-block
    logged,             \* the generator's except clause printed the failure
    tables,             \* discovered table names
    idx,                \* 1-based position of the table loop
    existing_filenames, \* self.existing_filenames: base name -> counter
    exported_files,     \* counter of the run
    failed_tables,      \* list of the run
    dirExists,          \* excel_output_dir exists
    disk,               \* file names present in excel_output_dir
    issued,             \* history: (table, filename) returned by get_unique_filename
    queried,            \* history: tables whose Describe and Fetch succeeded
    written,            \* history: tables whose workbook was written
    counted,            \* history: tables for which exported_files was incremented
    attempts,           \* history: tables attempted, in order
    summary,            \* what Summarize printed
    \* ---- one call of merge_excel_sheets
    mpc,                \* position of the call
    indices_arg,        \* the source_sheet_indices argument as passed
    source_sheet_indices, \* the list after defaulting
    delete_source,      \* argument
    file_prefix,        \* argument (<<>> is None or empty)
    input_exists,       \* input_folder exists
    excel_files,        \* os.listdir(input_folder), the .xlsx names
    groups,             \* the groups dict, in insertion order
    gi,                 \* position of the group loop
    fi,                 \* position of the file loop (file_index)
    si,                 \* position of the sheet-index loop
    sheet_names,        \* sheet names of the file just read
    existing_sheet_names, \* registry of the open output workbook
    writer_sheets,      \* sheets held by the open output workbook
    src_disk,           \* files present in input_folder
    out_dir_made,       \* os.makedirs(output_folder) was called
    saved,              \* output workbooks saved, in order
    merr,               \* exception leaving merge_excel_sheets
    remove_attempts,    \* history: os.remove calls per file
    remove_failed,      \* history: files whose removal failed (logged)
    sheets_done,        \* history: requested indices processed per file
    read_ok,            \* history: files read successfully
    read_failed,        \* history: files whose read failed (logged)
    sheet_issued,       \* history: sheet names issued, with their group
    last_issue,         \* history: the latest get_unique_sheet_name call
    skip_warnings,      \* history: (file, index) of each "no such sheet" warning
    \* ---- one call of group_files_by_common_prefix
    g_files,            \* the files argument
    g_result,           \* the returned dict, in insertion order
    g_done,             \* the call has returned
    \* ---- one call of adjust_column_widths
    df,                 \* the DataFrame: headers and one cell list per column
    max_width,          \* argument
    column_widths,      \* worksheet.column_dimensions[...].width by position
    w_done              \* the call has returned

evars == <<pc, connection, opens, closes, pending, raised, logged, tables, idx,
           existing_filenames, exported_files, failed_tables, dirExists, disk,
           issued, queried, written, counted, attempts, summary>>

mvars == <<mpc, indices_arg, source_sheet_indices, delete_source, file_prefix,
           input_exists, excel_files, groups, gi, fi, si, sheet_names,
           existing_sheet_names, writer_sheets, src_disk, out_dir_made, saved,
           merr, remove_attempts, remove_failed, sheets_done, read_ok,
           read_failed, sheet_issued, last_issue, skip_warnings>>

gvars == <<g_files, g_result, g_done>>

wvars == <<df, max_width, column_widths, w_done>>

vars == <<evars, mvars, gvars, wvars>>

nonExport == <<mvars, gvars, wvars>>

nonMerge == <<evars, gvars, wvars>>

nonGroup == <<evars, mvars, wvars>>

nonWidth == <<evars, mvars, gvars>>

\* ------------------------------------------------------------------ bounds

MaxTables == 3

MaxIndices == 2

MaxGroupFiles == 3

MaxRows == 2

\* ----------------------------------------------------------------- strings

Max(a, b) == IF a >= b THEN a ELSE b

Min(a, b) == IF a <= b THEN a ELSE b

Digits == <<"0", "1", "2", "3", "4", "5", "6", "7", "8", "9">>

\* str(n) of a natural number, as the f-strings format it
RECURSIVE ToStr(_)
ToStr(n) == IF n < 10 THEN <<Digits[n + 1]>>
            ELSE ToStr(n \div 10) \o <<Digits[(n % 10) + 1]>>

Ext == <<".xlsx">>

\* ------------------------------------------------------- exporter: naming

IllegalChars == {"<", ">", ":", "\"", "/", "\\", "|", "?", "*"}

FilenameLimit == 255

NotIllegal(c) == c \notin IllegalChars

\* sanitize_filename: strip the illegal characters, truncate to 255
sanitize_filename(filename) ==
    LET sanitized == SelectSeq(filename, NotIllegal)
    IN  SubSeq(sanitized, 1, Min(Len(sanitized), FilenameLimit))

Placeholder == <<"U8F93", "U51FA">>

\* sanitize_filename(table_comment) or "输出"
valid_filename(table_comment) ==
    LET s == sanitize_filename(table_comment)
    IN  IF s = <<>> THEN Placeholder ELSE s

\* get_unique_filename: the name returned and the registry afterwards
get_unique_filename(reg, base_filename) ==
    IF base_filename \notin DOMAIN reg
    THEN [name |-> base_filename \o Ext,
          reg  |-> [b \in DOMAIN reg \cup {base_filename} |->
                       IF b = base_filename THEN 1 ELSE reg[b]]]
    ELSE [name |-> base_filename \o <<"_">> \o ToStr(reg[base_filename] + 1) \o Ext,
          reg  |-> [reg EXCEPT ![base_filename] = @ + 1]]

\* ------------------------------------------------------ exporter: inputs

TableName(i) == <<"t">> \o ToStr(i)

\* what SHOW TBLPROPERTIES can return for a table; the empty result stands
\* for every case that falls back (no row, empty comment, failed lookup)
Comments == {<<"a">>, <<"a", "_", "2">>, <<"a", "?">>, <<"?">>}

CommentResults == Comments \cup {<<>>}

\* get_table_comment: the comment, or the table name when there is none
get_table_comment(table_name, result) ==
    IF result # <<>> THEN result ELSE table_name

\* files that may lie in the output directory before the run
PreExisting == {<<"a">> \o Ext}

\* ------------------------------------------------- connection manager

ExportInit ==
    /\ pc = "enter"
    /\ connection = "unbound"
    /\ opens = 0
    /\ closes = 0
    /\ pending = "none"
    /\ raised = "none"
    /\ logged = FALSE
    /\ tables = <<>>
    /\ idx = 0
    /\ existing_filenames = [b \in {} |-> 0]
    /\ exported_files = 0
    /\ failed_tables = <<>>
    /\ dirExists \in BOOLEAN
    /\ disk \in (IF dirExists THEN SUBSET PreExisting ELSE {{}})
    /\ issued = <<>>
    /\ queried = {}
    /\ written = {}
    /\ counted = {}
    /\ attempts = <<>>
    /\ summary = [printed |-> FALSE, expected |-> 0, actual |-> 0,
                  failed |-> <<>>]

runvars == <<tables, idx, existing_filenames, exported_files, failed_tables,
             dirExists, disk, issued, queried, written, counted, attempts,
             summary>>

connvars == <<connection, opens, closes, raised, logged>>

\* load_secrets returned nothing, or a required field is missing: ValueError
\* is raised before the try block is entered
EnterConfigError ==
    /\ pc = "enter"
    /\ raised' = "ConfigError"
    /\ pc' = "done"
    /\ UNCHANGED <<connection, opens, closes, pending, logged, runvars>>
    /\ UNCHANGED nonExport

\* hive.Connection raises E: connection is never assigned
EnterOpenFail ==
    /\ pc = "enter"
    /\ pending' = "OpenError"
    /\ pc' = "except"
    /\ UNCHANGED <<connection, opens, closes, raised, logged, runvars>>
    /\ UNCHANGED nonExport

\* hive.Connection succeeds and the session is yielded to the with-body
EnterOpenOk ==
    /\ pc = "enter"
    /\ connection' = "conn"
    /\ opens' = opens + 1
    /\ pc' = "discover"
    /\ UNCHANGED <<closes, pending, raised, logged, runvars>>
    /\ UNCHANGED nonExport

\* except Exception as e: print(...); raise
GeneratorExcept ==
    /\ pc = "except"
    /\ logged' = TRUE
    /\ pc' = "finally"
    /\ UNCHANGED <<connection, opens, closes, pending, raised, runvars>>
    /\ UNCHANGED nonExport

\* the finally clause without its close (a mutant)
FinallyEffectNoClose(conn, pend, nclosed) ==
    IF conn = "unbound"
    THEN [raised |-> "UnboundLocalError", closes |-> nclosed]
    ELSE [raised |-> pend, closes |-> nclosed]

\* finally: if connection: connection.close().  Reading the unassigned local
\* raises UnboundLocalError, which replaces the exception in flight.
FinallyEffect(conn, pend, nclosed) ==
    IF conn = "unbound"
    THEN [raised |-> "UnboundLocalError", closes |-> nclosed]
    ELSE [raised |-> pend, closes |-> nclosed + 1]

Finally ==
    /\ pc = "finally"
    /\ LET r == FinallyEffect(connection, pending, closes)
       IN  /\ raised' = r.raised
           /\ closes' = r.closes
    /\ pc' = "done"
    /\ UNCHANGED <<connection, opens, pending, logged, runvars>>
    /\ UNCHANGED nonExport

\* ------------------------------------------------------- exporter: export

\* get_tables_by_prefix returned n >= 1 tables
DiscoverOk ==
    /\ pc = "discover"
    /\ \E n \in 1..MaxTables :
          tables' = [i \in 1..n |-> TableName(i)]
    /\ idx' = 1
    /\ pc' = "table"
    /\ UNCHANGED <<connvars, pending, existing_filenames, exported_files,
                   failed_tables, dirExists, disk, issued, queried, written,
                   counted, attempts, summary>>
    /\ UNCHANGED nonExport

\* no table matches: ValueError, logged by export's outer except and re-raised
\* out of the with-body, i.e. thrown into the generator at its yield
DiscoverEmpty ==
    /\ pc = "discover"
    /\ pending' = "NoTables"
    /\ pc' = "except"
    /\ UNCHANGED <<connvars, runvars>>
    /\ UNCHANGED nonExport

\* a query of get_tables_by_prefix raises (e.g. the connection is lost)
DiscoverFail ==
    /\ pc = "discover"
    /\ pending' = "QueryError"
    /\ pc' = "except"
    /\ UNCHANGED <<connvars, runvars>>
    /\ UNCHANGED nonExport

\* what a table's iteration can meet
Outcomes == {"query_fail", "mkdir_fail", "write_fail", "ok"}

\* except Exception as table_e that drops the table (a mutant)
RecordFailureDropped(failed, table) == failed

\* except Exception as table_e: failed_tables.append(table)
RecordFailure(failed, table) == Append(failed, table)

\* one iteration of the table loop: comment lookup, Describe, Fetch, Write
ProcessTable ==
    /\ pc = "table"
    /\ idx <= Len(tables)
    /\ \E c \in CommentResults, outcome \in Outcomes, leaves \in BOOLEAN :
         LET table == tables[idx]
             table_comment == get_table_comment(table, c)
             u == get_unique_filename(existing_filenames,
                                      valid_filename(table_comment))
             exists == u.name \in disk
         IN
         /\ (outcome # "write_fail") => ~leaves
         /\ (outcome = "mkdir_fail") => ~dirExists
         /\ (outcome = "write_fail") => ~exists
         /\ (outcome = "query_fail") => c = <<>>
         /\ attempts' = Append(attempts, idx)
         /\ idx' = idx + 1
         /\ IF outcome = "query_fail"
            THEN \* Describe or Fetch raised
                 /\ failed_tables' = RecordFailure(failed_tables, table)
                 /\ UNCHANGED <<existing_filenames, exported_files, dirExists,
                                disk, issued, queried, written, counted>>
            ELSE IF outcome = "mkdir_fail"
            THEN \* os.makedirs raised, before any name was issued
                 /\ queried' = queried \cup {idx}
                 /\ failed_tables' = RecordFailure(failed_tables, table)
                 /\ UNCHANGED <<existing_filenames, exported_files, dirExists,
                                disk, issued, written, counted>>
            ELSE /\ queried' = queried \cup {idx}
                 /\ dirExists' = TRUE
                 /\ existing_filenames' = u.reg
                 /\ issued' = Append(issued, <<idx, u.name>>)
                 /\ IF exists
                    THEN \* the warning branch: nothing is written, no error
                         /\ exported_files' = exported_files + 1
                         /\ counted' = counted \cup {idx}
                         /\ UNCHANGED <<disk, written, failed_tables>>
                    ELSE IF outcome = "ok"
                    THEN /\ disk' = disk \cup {u.name}
                         /\ written' = written \cup {idx}
                         /\ exported_files' = exported_files + 1
                         /\ counted' = counted \cup {idx}
                         /\ UNCHANGED failed_tables
                    ELSE \* the writer raised; the file may have been left
                         /\ disk' = IF leaves THEN disk \cup {u.name} ELSE disk
                         /\ failed_tables' = RecordFailure(failed_tables, table)
                         /\ UNCHANGED <<exported_files, written, counted>>
    /\ UNCHANGED <<pc, connvars, pending, tables, summary>>
    /\ UNCHANGED nonExport

\* the loop is over: the summary is printed and the with-body ends normally
Summarize ==
    /\ pc = "table"
    /\ idx > Len(tables)
    /\ summary' = [printed |-> TRUE, expected |-> Len(tables),
                   actual |-> exported_files, failed |-> failed_tables]
    /\ pc' = "finally"
    /\ UNCHANGED <<connvars, pending, tables, idx, existing_filenames,
                   exported_files, failed_tables, dirExists, disk, issued,
                   queried, written, counted, attempts>>
    /\ UNCHANGED nonExport

ExportNext ==
    \/ EnterConfigError
    \/ EnterOpenFail
    \/ EnterOpenOk
    \/ GeneratorExcept
    \/ Finally
    \/ DiscoverOk
    \/ DiscoverEmpty
    \/ DiscoverFail
    \/ ProcessTable
    \/ Summarize

\* ------------------------------------------------------ exporter: claims

InSeq(x, seq) == \E k \in DOMAIN seq : seq[k] = x

\* C1: within one run the filenames get_unique_filename returns are pairwise
\* distinct, whatever the sequence of sanitized base names (the claim as
\* stated; the code issues a_2.xlsx twice for the base names a, a, a_2).
C1_FilenamesDistinct ==
    \A i, j \in DOMAIN issued :
        i # j => issued[i][2] # issued[j][2]

\* C2: when the run reaches Summarize, every table whose Describe and Fetch
\* succeeded either had its workbook written and is counted in
\* exported_files, or is in failed_tables; never counted without a workbook
\* (the claim as stated; the code counts a table whose target path exists).
C2_WrittenOrFailed ==
    summary.printed =>
        \A t \in queried :
            \/ t \in written /\ t \in counted /\ ~InSeq(tables[t], failed_tables)
            \/ t \notin written /\ t \notin counted /\ InSeq(tables[t], failed_tables)

\* C3: every session opened is closed exactly once when the with-block is
\* left, on normal completion, on an exception of the body (which still
\* reaches the caller) and on the no-matching-tables error; close is never
\* called on a session that was not opened.
C3_ClosedOncePerOpen ==
    /\ closes <= opens
    /\ pc = "done" => closes = opens
    /\ (pc = "done" /\ opens = 1) => raised = pending
    /\ (pc # "done" /\ opens = 1) => closes = 0

C3_Witness ==
    /\ pc = "done"
    /\ opens = 1
    /\ closes = 1
    /\ raised = "NoTables"

\* C4: when opening the session fails with E, the failure is logged and the
\* exception that reaches the caller is E itself (the claim as stated; the
\* finally clause reads the unassigned local and raises UnboundLocalError).
C4_OpenErrorUnchanged ==
    (pc = "done" /\ pending = "OpenError") =>
        (logged /\ raised = "OpenError")

\* C9: once discovery returned a non-empty list, no exception of a table's
\* Describe, Fetch or Write leaves its iteration: the table is appended to
\* failed_tables, the later tables are processed in order, each table is
\* attempted exactly once, and at Summarize exported_files +
\* len(failed_tables) is the number of discovered tables.
C9_FailureIsolation ==
    tables # <<>> =>
        /\ pending = "none"
        /\ attempts = [i \in 1..(idx - 1) |-> i]
        /\ exported_files + Len(failed_tables) = idx - 1
        /\ \A i \in 1..(idx - 1) :
              (i \in counted) # InSeq(tables[i], failed_tables)
        /\ summary.printed =>
              /\ idx = Len(tables) + 1
              /\ summary.actual + Len(summary.failed) = Len(tables)
        /\ pc = "done" => (summary.printed /\ raised = "none")

C9_Witness ==
    /\ summary.printed
    /\ \E i, j \in 1..Len(tables) :
          /\ i < j
          /\ InSeq(tables[i], failed_tables)
          /\ i \in queried
          /\ j \in written

\* ================================================================ merger

NoPrefixKey == <<"U65E0", "U524D", "U7F00">>

\* length of the run of characters other than "_" that starts at position i
RECURSIVE NonUnderscoreRun(_, _)
NonUnderscoreRun(s, i) ==
    IF i > Len(s) \/ s[i] = "_" THEN 0 ELSE 1 + NonUnderscoreRun(s, i + 1)

\* the regex with * in place of + (a mutant)
prefix_match_star(file) ==
    LET k == NonUnderscoreRun(file, 1)
    IN  IF k < Len(file) /\ file[k + 1] = "_"
        THEN SubSeq(file, 1, k + 1)
        ELSE <<>>

\* re.match(r'^[^_]+_', file): the matched text, <<>> when there is no match
prefix_match(file) ==
    LET k == NonUnderscoreRun(file, 1)
    IN  IF k >= 1 /\ k < Len(file) /\ file[k + 1] = "_"
        THEN SubSeq(file, 1, k + 1)
        ELSE <<>>

\* the key a file is filed under
prefix_of(file) ==
    LET m == prefix_match(file)
    IN  IF m # <<>> THEN m ELSE NoPrefixKey

\* prefix_dict[prefix].append(file) on a dict kept in insertion order
dict_append(d, key, file) ==
    IF \E k \in DOMAIN d : d[k].key = key
    THEN [k \in DOMAIN d |->
            IF d[k].key = key
            THEN [key |-> key, files |-> Append(d[k].files, file)]
            ELSE d[k]]
    ELSE Append(d, [key |-> key, files |-> <<file>>])

RECURSIVE group_fold(_, _, _)
group_fold(files, i, d) ==
    IF i > Len(files) THEN d
    ELSE group_fold(files, i + 1, dict_append(d, prefix_of(files[i]), files[i]))

\* group_files_by_common_prefix
group_files_by_common_prefix(files) == group_fold(files, 1, <<>>)

\* str.startswith
startswith(s, p) == Len(p) <= Len(s) /\ SubSeq(s, 1, Len(p)) = p

\* os.path.splitext(excel_file)[0] of a name that ends in ".xlsx"
stem(excel_file) == SubSeq(excel_file, 1, Len(excel_file) - 1)

\* get_unique_sheet_name that tries the suffix _1 only (a mutant)
get_unique_sheet_name_once(base_name, existing_names) ==
    IF base_name \notin existing_names THEN base_name
    ELSE base_name \o <<"_">> \o ToStr(1)

RECURSIVE unique_from(_, _, _)
unique_from(base_name, existing_names, counter) ==
    LET new_name == base_name \o <<"_">> \o ToStr(counter)
    IN  IF new_name \notin existing_names THEN new_name
        ELSE unique_from(base_name, existing_names, counter + 1)

\* get_unique_sheet_name
get_unique_sheet_name(base_name, existing_names) ==
    IF base_name \notin existing_names THEN base_name
    ELSE unique_from(base_name, existing_names, 1)

\* ---------------------------------------------------------- merger: inputs

\* the files the input folder may hold, in listing order
FileUniverse == << <<"n">> \o Ext, <<"n", "_", "1">> \o Ext >>

FileSet == {FileUniverse[k] : k \in DOMAIN FileUniverse}

\* the sub-listings of FileUniverse
Listings ==
    {SelectSeq(FileUniverse, LAMBDA f : f \in S) : S \in SUBSET FileSet}

\* what pd.read_excel(sheet_name=None) can return: the sheet names of a file
SheetLists == { << <<"1">> >>, << <<"1">>, <<"x">> >> }

\* elements a caller may put in source_sheet_indices: integers, and one
\* value that is not an integer (isint = FALSE)
IndexElems == {[isint |-> TRUE, v |-> 0], [isint |-> TRUE, v |-> 1],
               [isint |-> TRUE, v |-> 2], [isint |-> TRUE, v |-> 3],
               [isint |-> FALSE, v |-> 1]}

SeqsUpTo(S, n) == UNION {[1..k -> S] : k \in 0..n}

\* the argument: None, a list, or something that is not a list
IndexArgs ==
    {[kind |-> "none", items |-> <<>>], [kind |-> "other", items |-> <<>>]}
    \cup {[kind |-> "list", items |-> l] : l \in SeqsUpTo(IndexElems, MaxIndices)}

FilePrefixes == {<<>>, <<"n">>}

\* lines 33-41: the error the validation raises, or "ok"
validate_indices(arg) ==
    IF arg.kind = "none" THEN "ok"
    ELSE IF arg.kind # "list" THEN "TypeError"
    ELSE IF \E k \in DOMAIN arg.items :
               ~arg.items[k].isint \/ arg.items[k].v < 1
    THEN "ValueError"
    ELSE "ok"

\* the list the loops use: [1] by default
effective_indices(arg) ==
    IF arg.kind = "none" THEN <<1>>
    ELSE [k \in DOMAIN arg.items |-> arg.items[k].v]

\* lines 60-73: the groups to merge (<<>> when the call returns early)
select_groups(files, prefix) ==
    IF prefix # <<>>
    THEN LET selected_files == SelectSeq(files, LAMBDA f : startswith(f, prefix))
         IN  IF selected_files = <<>> THEN <<>>
             ELSE <<[key |-> prefix, files |-> selected_files]>>
    ELSE LET g == group_files_by_common_prefix(files)
         IN  IF g = <<>> THEN <<[key |-> <<"merged">>, files |-> files]>>
             ELSE g

ZeroPerFile == [f \in FileSet |-> 0]

MergeInit ==
    /\ mpc = "validate"
    /\ indices_arg \in IndexArgs
    /\ source_sheet_indices = <<>>
    /\ delete_source \in BOOLEAN
    /\ file_prefix \in FilePrefixes
    /\ input_exists \in BOOLEAN
    /\ excel_files \in (IF input_exists THEN Listings ELSE {<<>>})
    /\ groups = <<>>
    /\ gi = 0
    /\ fi = 0
    /\ si = 0
    /\ sheet_names = <<>>
    /\ existing_sheet_names = {}
    /\ writer_sheets = <<>>
    /\ src_disk = {excel_files[k] : k \in DOMAIN excel_files}
    /\ out_dir_made = FALSE
    /\ saved = <<>>
    /\ merr = "none"
    /\ remove_attempts = ZeroPerFile
    /\ remove_failed = {}
    /\ sheets_done = ZeroPerFile
    /\ read_ok = {}
    /\ read_failed = {}
    /\ sheet_issued = <<>>
    /\ last_issue = [base |-> <<>>, name |-> <<>>, before |-> {}]
    /\ skip_warnings = <<>>

loopvars == <<gi, fi, si, sheet_names, existing_sheet_names, writer_sheets>>

histvars == <<remove_attempts, remove_failed, sheets_done, read_ok, read_failed,
              sheet_issued, last_issue, skip_warnings>>

argvars == <<indices_arg, delete_source, file_prefix, input_exists, excel_files>>

\* lines 33-73: validation, the folder checks, the listing and the grouping
Validate ==
    /\ mpc = "validate"
    /\ LET v == validate_indices(indices_arg)
           g == select_groups(excel_files, file_prefix)
       IN  IF v # "ok"
           THEN /\ merr' = v
                /\ mpc' = "raised"
                /\ UNCHANGED <<source_sheet_indices, out_dir_made, groups, gi>>
           ELSE /\ source_sheet_indices' = effective_indices(indices_arg)
                /\ IF ~input_exists
                   THEN /\ merr' = "FileNotFoundError"
                        /\ mpc' = "raised"
                        /\ UNCHANGED <<out_dir_made, groups, gi>>
                   ELSE /\ out_dir_made' = TRUE
                        /\ merr' = merr
                        /\ IF excel_files = <<>> \/ g = <<>>
                           THEN /\ mpc' = "done"
                                /\ UNCHANGED <<groups, gi>>
                           ELSE /\ groups' = g
                                /\ gi' = 1
                                /\ mpc' = "group"
    /\ UNCHANGED <<argvars, fi, si, sheet_names, existing_sheet_names,
                   writer_sheets, src_disk, saved, histvars>>
    /\ UNCHANGED nonMerge


\* the name a sheet is filed under before collisions are resolved; the
\* reference entry point passes sheet_prefix = ""
base_sheet_name(excel_file, names, sheet_idx) ==
    IF Len(names) = 1
    THEN stem(excel_file)
    ELSE stem(excel_file) \o <<"_">> \o names[sheet_idx]

\* the registry the writer of a new group starts from, were it kept (a mutant)
fresh_registry_kept(old) == old

\* existing_sheet_names = set() for each output workbook
fresh_registry(old) == {}

\* lines 76-84: the next group's output workbook is opened
StartGroup ==
    /\ mpc = "group"
    /\ gi <= Len(groups)
    /\ \/ /\ existing_sheet_names' = fresh_registry(existing_sheet_names)
          /\ writer_sheets' = <<>>
          /\ fi' = 1
          /\ mpc' = "file"
          /\ UNCHANGED merr
       \/ \* pd.ExcelWriter(output_file) raised: the exception leaves the call
          /\ merr' = "WriterError"
          /\ mpc' = "raised"
          /\ UNCHANGED <<existing_sheet_names, writer_sheets, fi>>
    /\ UNCHANGED <<argvars, source_sheet_indices, groups, gi, si, sheet_names,
                   src_disk, out_dir_made, saved, histvars>>
    /\ UNCHANGED nonMerge

\* the group loop is over: the call returns
Finish ==
    /\ mpc = "group"
    /\ gi > Len(groups)
    /\ mpc' = "done"
    /\ UNCHANGED <<argvars, source_sheet_indices, groups, loopvars, src_disk,
                   out_dir_made, saved, merr, histvars>>
    /\ UNCHANGED nonMerge

CurrentFile == groups[gi].files[fi]

\* lines 86-98: pd.read_excel of the next file of the group
ReadFile ==
    /\ mpc = "file"
    /\ fi <= Len(groups[gi].files)
    /\ \/ \* the read raised: logged, the file is skipped by continue
          /\ read_failed' = read_failed \cup {CurrentFile}
          /\ fi' = fi + 1
          /\ UNCHANGED <<mpc, si, sheet_names, read_ok>>
       \/ \E names \in SheetLists :
          /\ read_ok' = read_ok \cup {CurrentFile}
          /\ sheet_names' = names
          /\ si' = 1
          /\ mpc' = "sheet"
          /\ fi' = fi
          /\ UNCHANGED read_failed
    /\ UNCHANGED <<argvars, source_sheet_indices, groups, gi,
                   existing_sheet_names, writer_sheets, src_disk, out_dir_made,
                   saved, merr, remove_attempts, remove_failed, sheets_done,
                   sheet_issued, last_issue, skip_warnings>>
    /\ UNCHANGED nonMerge

\* how a sheet's write can end: written; failed before the sheet was added
\* (to_excel raised); failed after it was added (adjust_column_widths raised)
WriteOutcomes == {"ok", "fail_before", "fail_after"}

\* the test of line 101 with >= in place of > (a mutant)
index_missing_inclusive(sheet_idx, num_sheets) == sheet_idx >= num_sheets

\* line 101: the file has no sheet of that index
index_missing(sheet_idx, num_sheets) == sheet_idx > num_sheets

\* lines 100-129: one requested index of the current file
ProcessSheet ==
    /\ mpc = "sheet"
    /\ si <= Len(source_sheet_indices)
    /\ LET sheet_idx == source_sheet_indices[si]
           num_sheets == Len(sheet_names)
       IN  IF index_missing(sheet_idx, num_sheets)
           THEN \* warning, continue
                /\ skip_warnings' = Append(skip_warnings,
                       [file |-> CurrentFile, index |-> sheet_idx])
                /\ UNCHANGED <<existing_sheet_names, writer_sheets,
                               sheet_issued, last_issue>>
           ELSE LET base == base_sheet_name(CurrentFile, sheet_names, sheet_idx)
                    unique_sheet_name ==
                        get_unique_sheet_name(base, existing_sheet_names)
                IN  /\ existing_sheet_names' =
                           existing_sheet_names \cup {unique_sheet_name}
                    /\ last_issue' = [base |-> base, name |-> unique_sheet_name,
                                      before |-> existing_sheet_names]
                    /\ \E w \in WriteOutcomes :
                          /\ sheet_issued' = Append(sheet_issued,
                                 [group |-> gi, name |-> unique_sheet_name,
                                  file |-> CurrentFile, index |-> sheet_idx,
                                  outcome |-> w])
                          /\ writer_sheets' =
                                 IF w = "fail_before" THEN writer_sheets
                                 ELSE Append(writer_sheets,
                                        [name |-> unique_sheet_name,
                                         file |-> CurrentFile,
                                         index |-> sheet_idx,
                                         complete |-> (w = "ok")])
                    /\ UNCHANGED skip_warnings
    /\ si' = si + 1
    /\ sheets_done' = [sheets_done EXCEPT ![CurrentFile] = @ + 1]
    /\ UNCHANGED <<argvars, source_sheet_indices, groups, gi, fi, sheet_names,
                   src_disk, out_dir_made, saved, mpc, merr, remove_attempts,
                   remove_failed, read_ok, read_failed>>
    /\ UNCHANGED nonMerge

\* the deletion step run for every file, read or not (a mutant)
removal_due_always(flag) == TRUE

\* lines 131-132: if delete_source
removal_due(flag) == flag

\* lines 131-137: after the sheet loop, the source file is removed if asked
RemoveSource ==
    /\ mpc = "sheet"
    /\ si > Len(source_sheet_indices)
    /\ IF removal_due(delete_source)
       THEN /\ remove_attempts' = [remove_attempts EXCEPT ![CurrentFile] = @ + 1]
            /\ \/ /\ src_disk' = src_disk \ {CurrentFile}
                  /\ UNCHANGED remove_failed
               \/ \* os.remove raised: logged
                  /\ remove_failed' = remove_failed \cup {CurrentFile}
                  /\ UNCHANGED src_disk
       ELSE UNCHANGED <<remove_attempts, remove_failed, src_disk>>
    /\ fi' = fi + 1
    /\ mpc' = "file"
    /\ UNCHANGED <<argvars, source_sheet_indices, groups, gi, si, sheet_names,
                   existing_sheet_names, writer_sheets, out_dir_made, saved,
                   merr, sheets_done, read_ok, read_failed, sheet_issued,
                   last_issue, skip_warnings>>
    /\ UNCHANGED nonMerge

\* lines 82 and 139-143: the with-block ends and the workbook is saved
SaveGroup ==
    /\ mpc = "file"
    /\ fi > Len(groups[gi].files)
    /\ \/ /\ saved' = Append(saved, [key |-> groups[gi].key,
                                     sheets |-> writer_sheets])
          /\ gi' = gi + 1
          /\ mpc' = "group"
          /\ UNCHANGED merr
       \/ \* saving raised: the exception leaves merge_excel_sheets
          /\ merr' = "SaveError"
          /\ mpc' = "raised"
          /\ UNCHANGED <<saved, gi>>
    /\ UNCHANGED <<argvars, source_sheet_indices, groups, fi, si, sheet_names,
                   existing_sheet_names, writer_sheets, src_disk, out_dir_made,
                   histvars>>
    /\ UNCHANGED nonMerge

MergeNext ==
    \/ Validate
    \/ StartGroup
    \/ Finish
    \/ ReadFile
    \/ ProcessSheet
    \/ RemoveSource
    \/ SaveGroup

\* -------------------------------------------------------- merger: claims

ListedFiles == {excel_files[k] : k \in DOMAIN excel_files}

GroupFiles ==
    UNION {{groups[g].files[k] : k \in DOMAIN groups[g].files} :
              g \in DOMAIN groups}

\* C5: a source_sheet_indices that is an empty list, or a list holding an
\* element that is not an integer or is below 1, is rejected with an error
\* before the filesystem is touched: no output directory or workbook is
\* created and no source file is read or deleted (the claim as stated; the
\* code accepts the empty list).
C5_InvalidIndicesRejected ==
    (/\ mpc # "validate"
     /\ indices_arg.kind = "list"
     /\ \/ indices_arg.items = <<>>
        \/ \E k \in DOMAIN indices_arg.items :
              ~indices_arg.items[k].isint \/ indices_arg.items[k].v < 1)
    => /\ mpc = "raised"
       /\ merr # "none"
       /\ ~out_dir_made
       /\ saved = <<>>
       /\ read_ok = {} /\ read_failed = {}
       /\ src_disk = ListedFiles
       /\ remove_attempts = ZeroPerFile

\* C6: within one output workbook the sheet names issued are pairwise
\* distinct; a colliding base name gets the smallest suffix _k (k = 1, 2, ...)
\* not yet in the workbook's registry; and the registry holds the names of
\* the current workbook only, so another group's names never affect it.
C6_SheetNamesUnique ==
    /\ \A i, j \in DOMAIN sheet_issued :
          (i # j /\ sheet_issued[i].group = sheet_issued[j].group)
              => sheet_issued[i].name # sheet_issued[j].name
    /\ LET b == last_issue.base
           n == last_issue.name
           before == last_issue.before
       IN  IF b \notin before
           THEN n = b
           ELSE \E k \in 1..(Cardinality(before) + 1) :
                   /\ n = b \o <<"_">> \o ToStr(k)
                   /\ n \notin before
                   /\ \A j \in 1..(k - 1) : (b \o <<"_">> \o ToStr(j)) \in before
    /\ mpc \in {"file", "sheet"} =>
          existing_sheet_names =
              {sheet_issued[k].name :
                  k \in {x \in DOMAIN sheet_issued : sheet_issued[x].group = gi}}

C6_Witness ==
    /\ gi = 2
    /\ last_issue.base \in last_issue.before
    /\ \E i, j \in DOMAIN sheet_issued :
          /\ sheet_issued[i].group = 1
          /\ sheet_issued[j].group = 2
          /\ sheet_issued[i].name = sheet_issued[j].name

\* C7 as stated: with delete_source set, removal of every source file of
\* every group is attempted exactly once, after all its requested indices
\* were processed; with delete_source unset nothing is removed (the code
\* skips the removal of a file whose read failed).
C7_RemovalOncePerFile ==
    /\ ~delete_source =>
          (remove_attempts = ZeroPerFile /\ src_disk = ListedFiles)
    /\ \A f \in FileSet :
          /\ remove_attempts[f] <= 1
          /\ remove_attempts[f] = 1 =>
                sheets_done[f] = Len(source_sheet_indices)
    /\ (delete_source /\ mpc = "done") =>
          \A f \in GroupFiles : remove_attempts[f] = 1

\* C7 amended: with delete_source set, removal of every source file that was
\* read successfully is attempted exactly once, after all its requested
\* indices were processed, whatever the sheet writes did; a file whose read
\* failed gets no removal attempt; a failed removal is logged, leaves the
\* file in place and does not stop the later files; with delete_source unset
\* nothing is removed.
C7_RemovalOncePerReadFile ==
    /\ ~delete_source =>
          (remove_attempts = ZeroPerFile /\ src_disk = ListedFiles)
    /\ \A f \in FileSet :
          /\ remove_attempts[f] <= 1
          /\ remove_attempts[f] = 1 =>
                (f \in read_ok /\ sheets_done[f] = Len(source_sheet_indices))
          /\ (delete_source /\ f \in read_ok) =>
                \/ mpc = "sheet" /\ CurrentFile = f
                \/ remove_attempts[f] = 1
          /\ f \in read_failed => remove_attempts[f] = 0
    /\ remove_failed \subseteq src_disk
    /\ src_disk = ListedFiles \ {f \in FileSet :
                      remove_attempts[f] = 1 /\ f \notin remove_failed}
    /\ mpc = "done" => GroupFiles \subseteq (read_ok \cup read_failed)
    /\ (mpc = "raised" /\ groups # <<>>) => merr \in {"SaveError", "WriterError"}

C7_Witness ==
    /\ delete_source
    /\ mpc = "done"
    /\ remove_failed = {FileUniverse[1]}
    /\ remove_attempts[FileUniverse[2]] = 1
    /\ FileUniverse[2] \notin src_disk
    /\ \E k \in DOMAIN saved : \E x \in DOMAIN saved[k].sheets :
          /\ ~saved[k].sheets[x].complete
          /\ saved[k].sheets[x].file = FileUniverse[2]

\* the first k requested indices that a file of n sheets has
RequestedPresent(n, k) ==
    SelectSeq(SubSeq(source_sheet_indices, 1, k), LAMBDA i : i <= n)

\* the first k requested indices that a file of n sheets lacks
RequestedMissing(n, k) ==
    SelectSeq(SubSeq(source_sheet_indices, 1, k), LAMBDA i : i > n)

IndicesOf(records) == [k \in DOMAIN records |-> records[k].index]

IssuedFor(f) == SelectSeq(sheet_issued, LAMBDA r : r.file = f)

InWorkbookFor(f) == SelectSeq(writer_sheets, LAMBDA r : r.file = f)

WarnedFor(f) == SelectSeq(skip_warnings, LAMBDA r : r.file = f)

\* C11 as stated: for a file read with n sheets, a requested index above n
\* is skipped with a warning and nothing else changes: the sheets written
\* for the file are exactly the requested indices that are at most n, one
\* per occurrence, in request order (a sheet whose write fails is requested,
\* at most n, and not written).
C11_WrittenAreRequestedPresent ==
    mpc = "sheet" =>
        LET f == CurrentFile
            n == Len(sheet_names)
        IN  /\ IndicesOf(InWorkbookFor(f)) = RequestedPresent(n, si - 1)
            /\ IndicesOf(WarnedFor(f)) = RequestedMissing(n, si - 1)

\* C11 amended: a requested index above n is skipped with a warning and
\* nothing else changes: the sheets whose write is attempted for the file
\* are exactly the requested indices that are at most n, one per
\* occurrence, in request order, and each of them is in the output workbook
\* unless its write failed before the sheet was added.
C11_AttemptedAreRequestedPresent ==
    mpc = "sheet" =>
        LET f == CurrentFile
            n == Len(sheet_names)
        IN  /\ IndicesOf(IssuedFor(f)) = RequestedPresent(n, si - 1)
            /\ IndicesOf(WarnedFor(f)) = RequestedMissing(n, si - 1)
            /\ sheets_done[f] = si - 1
            /\ InWorkbookFor(f) =
                  [k \in DOMAIN SelectSeq(IssuedFor(f),
                                    LAMBDA r : r.outcome # "fail_before") |->
                      LET r == SelectSeq(IssuedFor(f),
                                    LAMBDA x : x.outcome # "fail_before")[k]
                      IN  [name |-> r.name, file |-> f, index |-> r.index,
                           complete |-> (r.outcome = "ok")]]

C11_Witness ==
    /\ mpc = "sheet"
    /\ source_sheet_indices = <<1, 3>>
    /\ Len(sheet_names) = 2
    /\ si = 3
    /\ IndicesOf(InWorkbookFor(CurrentFile)) = <<1>>
    /\ InWorkbookFor(CurrentFile)[1].complete
    /\ skip_warnings = <<[file |-> CurrentFile, index |-> 3]>>

\* C12: with delete_source set, a source file is deleted only after the
\* output workbook holding its sheets was saved, and only if one of its
\* sheets was written to it: in no state is a source file gone while none
\* of its data is in a saved output workbook (the claim as stated; the code
\* removes the file right after its sheet loop, before the save and
\* whatever was written).
C12_NoDataLoss ==
    \A f \in ListedFiles \ src_disk :
        \E k \in DOMAIN saved : \E x \in DOMAIN saved[k].sheets :
            saved[k].sheets[x].file = f

\* the same at the end of the call only
C12_NoDataLossAtEnd ==
    mpc \in {"done", "raised"} => C12_NoDataLoss

\* ============================================================== grouping

\* file names offered to group_files_by_common_prefix
GroupNames == { <<"s", "_", "j">> \o Ext, <<"s", "_", "f">> \o Ext,
                <<"h", "_", "q">> \o Ext, <<"n">> \o Ext,
                <<"_", "a">> \o Ext, <<"s", "_", "_">> \o Ext,
                <<"_", "s", "_", "j">> \o Ext }

\* listings: sequences of distinct names
GroupListings ==
    {l \in SeqsUpTo(GroupNames, MaxGroupFiles) :
        \A i, j \in DOMAIN l : i # j => l[i] # l[j]}

GroupInit ==
    /\ g_files \in GroupListings
    /\ g_result = <<>>
    /\ g_done = FALSE

GroupIdle ==
    /\ g_files = <<>>
    /\ g_result = <<>>
    /\ g_done = FALSE

\* the call group_files_by_common_prefix(files)
GroupFiles_Call ==
    /\ ~g_done
    /\ g_result' = group_files_by_common_prefix(g_files)
    /\ g_done' = TRUE
    /\ UNCHANGED g_files
    /\ UNCHANGED nonGroup

\* ----------------------------------------------------- grouping: claims

HasUnderscore(f) == \E i \in DOMAIN f : f[i] = "_"

FirstUnderscore(f) ==
    CHOOSE i \in DOMAIN f : f[i] = "_" /\ \A j \in 1..(i - 1) : f[j] # "_"

\* the groups a file lies in, as (group, position) pairs
PlacesOf(f) ==
    {<<k, j>> \in (DOMAIN g_result) \X (1..MaxGroupFiles + 1) :
        j \in DOMAIN g_result[k].files /\ g_result[k].files[j] = f}

KeyOf(f) == g_result[(CHOOSE p \in PlacesOf(f) : TRUE)[1]].key

\* C8 as stated: every file lands in exactly one group; a name that
\* contains "_" is keyed by its text up to and including the first "_", also
\* when it begins with "_"; a file is in the catch-all group exactly when its
\* name contains no "_" (the code files a name that begins with "_" under
\* the catch-all key).
C8_GroupByFirstUnderscore ==
    g_done =>
        /\ \A i, j \in DOMAIN g_result :
              i # j => g_result[i].key # g_result[j].key
        /\ \A k \in DOMAIN g_result : \A j \in DOMAIN g_result[k].files :
              InSeq(g_result[k].files[j], g_files)
        /\ \A x \in DOMAIN g_files :
              LET f == g_files[x]
              IN  /\ Cardinality(PlacesOf(f)) = 1
                  /\ HasUnderscore(f) =>
                        KeyOf(f) = SubSeq(f, 1, FirstUnderscore(f))
                  /\ (KeyOf(f) = NoPrefixKey) <=> ~HasUnderscore(f)

\* C8 amended: every file lands in exactly one group; a name that contains
\* "_" and does not begin with it is keyed by its text up to and including
\* the first "_"; a file is in the catch-all group exactly when its name
\* contains no "_" or begins with "_".
C8_GroupByNonEmptyPrefix ==
    g_done =>
        /\ \A i, j \in DOMAIN g_result :
              i # j => g_result[i].key # g_result[j].key
        /\ \A k \in DOMAIN g_result : \A j \in DOMAIN g_result[k].files :
              InSeq(g_result[k].files[j], g_files)
        /\ \A x \in DOMAIN g_files :
              LET f == g_files[x]
              IN  /\ Cardinality(PlacesOf(f)) = 1
                  /\ (HasUnderscore(f) /\ f[1] # "_") =>
                        KeyOf(f) = SubSeq(f, 1, FirstUnderscore(f))
                  /\ (KeyOf(f) = NoPrefixKey) <=>
                        (~HasUnderscore(f) \/ f[1] = "_")

C8_Witness ==
    /\ g_done
    /\ g_files = << <<"s", "_", "j">> \o Ext, <<"_", "a">> \o Ext,
                    <<"s", "_", "f">> \o Ext >>
    /\ g_result[1] = [key |-> <<"s", "_">>,
                      files |-> << <<"s", "_", "j">> \o Ext,
                                   <<"s", "_", "f">> \o Ext >>]
    /\ g_result[2].key = NoPrefixKey

\* ========================================================= column widths

CjkFirst == 19968

CjkLast == 40959

\* re.match(r'[一-鿿]', char) that misses the last code point (a mutant)
is_cjk_open(char) == char >= CjkFirst /\ char < CjkLast

\* re.match(r'[一-鿿]', char) on a code point
is_cjk(char) == char >= CjkFirst /\ char <= CjkLast

RECURSIVE width_from(_, _)
width_from(s, i) ==
    IF i > Len(s) THEN 0
    ELSE (IF is_cjk(s[i]) THEN 2 ELSE 1) + width_from(s, i + 1)

\* calculate_display_width
calculate_display_width(s) == IF s = <<>> THEN 0 ELSE width_from(s, 1)

\* str(n) as code points
RECURSIVE IntCodes(_)
IntCodes(n) == IF n < 10 THEN <<48 + n>>
               ELSE IntCodes(n \div 10) \o <<48 + (n % 10)>>

\* astype(str) of one cell: a string stays, an integer is written in
\* decimal, a missing value becomes "nan"
astype_str(cell) ==
    IF cell.kind = "str" THEN cell.s
    ELSE IF cell.kind = "int" THEN IntCodes(cell.n)
    ELSE <<110, 97, 110>>

RECURSIVE max_from(_, _)
max_from(ws, i) ==
    IF i = Len(ws) THEN ws[i] ELSE Max(ws[i], max_from(ws, i + 1))

\* the width of one column with min and max exchanged (a mutant)
adjusted_width_swapped(header, cells, limit) ==
    LET header_width == calculate_display_width(header)
        data_max_length ==
            IF cells # <<>>
            THEN max_from([k \in DOMAIN cells |->
                              calculate_display_width(astype_str(cells[k]))], 1)
            ELSE 0
    IN  Max(Min(header_width, data_max_length) + 2, limit)

\* lines 27-42: the width set for one column
adjusted_width(header, cells, limit) ==
    LET header_width == calculate_display_width(header)
        data_max_length ==
            IF cells # <<>>
            THEN max_from([k \in DOMAIN cells |->
                              calculate_display_width(astype_str(cells[k]))], 1)
            ELSE 0
        max_display_width == Max(header_width, data_max_length) + 2
    IN  Min(max_display_width, limit)

\* ---------------------------------------------------- column widths: inputs

DefaultMaxWidth == 100

WidthLimits == {1, 2, 3, 5, DefaultMaxWidth}

\* column headers: "", "a", two ideographs (the ends of the CJK range)
Headers == {<<>>, <<97>>, <<CjkFirst, CjkLast>>}

\* cells: "", a kana and an ideograph, the integer 12, a missing value
Cells == {[kind |-> "str", s |-> <<>>, n |-> 0],
          [kind |-> "str", s |-> <<12354, 20013>>, n |-> 0],
          [kind |-> "int", s |-> <<>>, n |-> 12],
          [kind |-> "nan", s |-> <<>>, n |-> 0]}

\* a DataFrame of one or two columns with the same number of rows
Frames ==
    UNION {[1..c -> [header : Headers, cells : [1..r -> Cells]]] :
              c \in 1..2, r \in 0..MaxRows}

WidthInit ==
    /\ df \in Frames
    /\ max_width \in WidthLimits
    /\ column_widths = <<>>
    /\ w_done = FALSE

WidthIdle ==
    /\ df = <<>>
    /\ max_width = 0
    /\ column_widths = <<>>
    /\ w_done = FALSE

\* the call adjust_column_widths(worksheet, df, columns_info=None, max_width)
AdjustColumnWidths ==
    /\ ~w_done
    /\ column_widths' = [i \in DOMAIN df |->
                            adjusted_width(df[i].header, df[i].cells, max_width)]
    /\ w_done' = TRUE
    /\ UNCHANGED <<df, max_width>>
    /\ UNCHANGED nonWidth

\* ---------------------------------------------------- column widths: claims

\* the display width, counted: two per ideograph, one per other character
DisplayWidth(s) ==
    2 * Cardinality({i \in DOMAIN s : s[i] \in CjkFirst..CjkLast})
    + Cardinality({i \in DOMAIN s : s[i] \notin CjkFirst..CjkLast})

\* the printed text of the cells of the model's inputs
CellText(cell) ==
    IF cell.kind = "str" THEN cell.s
    ELSE IF cell.kind = "int" THEN <<49, 50>>
    ELSE <<110, 97, 110>>

\* the largest display width among a column's cells, 0 for an empty column
MaxCellWidth(cells) ==
    IF cells = <<>> THEN 0
    ELSE CHOOSE w \in {DisplayWidth(CellText(cells[k])) : k \in DOMAIN cells} :
            \A k \in DOMAIN cells : DisplayWidth(CellText(cells[k])) <= w

\* C10 as stated: every column's width is min(max(header width, max cell
\* width) + 2, max_width), so it is at most max_width, and at least
\* min(header width, 2) when the data is empty (the lower bound fails when
\* max_width is below 2).
C10_WidthFormula ==
    w_done =>
        \A i \in DOMAIN df :
            LET hw == DisplayWidth(df[i].header)
                formula == Min(Max(hw, MaxCellWidth(df[i].cells)) + 2, max_width)
            IN  /\ column_widths[i] = formula
                /\ column_widths[i] <= max_width
                /\ df[i].cells = <<>> => column_widths[i] >= Min(hw, 2)

\* C10 amended: every column's width is min(max(header width, max cell
\* width) + 2, max_width), so it is at most max_width, and at least
\* min(header width, 2, max_width) when the data is empty.
C10_WidthFormulaCapped ==
    w_done =>
        /\ DOMAIN column_widths = DOMAIN df
        /\ \A i \in DOMAIN df :
            LET hw == DisplayWidth(df[i].header)
                formula == Min(Max(hw, MaxCellWidth(df[i].cells)) + 2, max_width)
            IN  /\ column_widths[i] = formula
                /\ column_widths[i] <= max_width
                /\ df[i].cells = <<>> =>
                      column_widths[i] >= Min(Min(hw, 2), max_width)

C10_Witness ==
    /\ w_done
    /\ Len(df) = 2
    /\ df[1].cells = <<>>
    /\ df[1].header = <<CjkFirst, CjkLast>>
    /\ max_width = 1
    /\ column_widths = <<1, 1>>

\* ======================================================== specifications

ExportIdle ==
    /\ pc = "idle"
    /\ connection = "unbound"
    /\ opens = 0
    /\ closes = 0
    /\ pending = "none"
    /\ raised = "none"
    /\ logged = FALSE
    /\ tables = <<>>
    /\ idx = 0
    /\ existing_filenames = [b \in {} |-> 0]
    /\ exported_files = 0
    /\ failed_tables = <<>>
    /\ dirExists = FALSE
    /\ disk = {}
    /\ issued = <<>>
    /\ queried = {}
    /\ written = {}
    /\ counted = {}
    /\ attempts = <<>>
    /\ summary = [printed |-> FALSE, expected |-> 0, actual |-> 0,
                  failed |-> <<>>]

MergeIdle ==
    /\ mpc = "idle"
    /\ indices_arg = [kind |-> "none", items |-> <<>>]
    /\ source_sheet_indices = <<>>
    /\ delete_source = FALSE
    /\ file_prefix = <<>>
    /\ input_exists = FALSE
    /\ excel_files = <<>>
    /\ groups = <<>>
    /\ gi = 0
    /\ fi = 0
    /\ si = 0
    /\ sheet_names = <<>>
    /\ existing_sheet_names = {}
    /\ writer_sheets = <<>>
    /\ src_disk = {}
    /\ out_dir_made = FALSE
    /\ saved = <<>>
    /\ merr = "none"
    /\ remove_attempts = ZeroPerFile
    /\ remove_failed = {}
    /\ sheets_done = ZeroPerFile
    /\ read_ok = {}
    /\ read_failed = {}
    /\ sheet_issued = <<>>
    /\ last_issue = [base |-> <<>>, name |-> <<>>, before |-> {}]
    /\ skip_warnings = <<>>

\* one run of HiveToExcelExporter.export
Init == ExportInit /\ MergeIdle /\ GroupIdle /\ WidthIdle

\* one call of merge_excel_sheets
InitMerge == MergeInit /\ ExportIdle /\ GroupIdle /\ WidthIdle

\* one call of group_files_by_common_prefix
InitGroup == GroupInit /\ ExportIdle /\ MergeIdle /\ WidthIdle

\* one call of adjust_column_widths
InitWidth == WidthInit /\ ExportIdle /\ MergeIdle /\ GroupIdle

Next == ExportNext

Spec == Init /\ [][Next]_vars

SpecMerge == InitMerge /\ [][MergeNext]_vars

GroupNext == GroupFiles_Call

SpecGroup == InitGroup /\ [][GroupNext]_vars

WidthNext == AdjustColumnWidths

SpecWidth == InitWidth /\ [][WidthNext]_vars

====
